---------------------------- MODULE Spec2Model ----------------------------
(***************************************************************************)
(* Model of src/main.py: a Streamlit page that loads four schools'         *)
(* environment CSVs and one growth workbook from data/, memoizes the load  *)
(* (st.cache_data) and renders three tabs.                                 *)
(*                                                                         *)
(* Text is a sequence of code points.  A Hangul syllable is one token      *)
(* ("SONG" is U+C1A1); its canonical decomposition is a sequence of        *)
(* conjoining jamo ("L_S","V_O","T_NG").  Other code points are tokens     *)
(* that have no decomposition.                                             *)
(*                                                                         *)
(* A table is a sequence of rows.  Of an environment CSV's numeric columns *)
(* the model keeps temperature, of a sheet's columns the fresh weight: the *)
(* script treats the other columns of a table the same way.                *)
(***************************************************************************)
EXTENDS Integers, Sequences, FiniteSets, TLC

\* ------------------------------------------------------------------ bounds
MaxSheets == 2      \* sheets in a generated workbook
MaxRows   == 2      \* rows in a generated sheet
MaxWeight == 2      \* fresh weights are drawn from 1..MaxWeight
MaxDeletes == 1     \* files removed from data/ while the process runs (SpecFS)

\* ------------------------------------------------------- Unicode (Hangul)
\* Canonical compositions <<first, second, composed>>: L+V -> LV, LV+T -> LVT.
Compositions ==
    { <<"L_S", "V_O", "SO">>,   <<"SO", "T_NG", "SONG">>,
      <<"L_D", "V_O", "DO">>,   <<"DO", "T_NG", "DONG">>,
      <<"L_G", "V_O", "GO">>,
      <<"L_H", "V_A", "HA">>,
      <<"L_N", "V_EU", "NEU">>, <<"NEU", "T_L", "NEUL">>,
      <<"L_NG", "V_A", "A">>,
      <<"L_R", "V_A", "RA">>,
      <<"L_S", "V_A", "SA">>,   <<"SA", "T_N", "SAN">>,
      <<"L_G", "V_AE", "GAE">>,
      <<"L_G", "V_YO", "GYO">> }

\* Code points of the first syllables of the four school names; pandas sorts
\* group keys by comparing strings code point by code point.
CodePoint ==
    [c \in {"DONG", "SONG", "A", "HA"} |->
        CASE c = "DONG" -> 46041      \* U+B3D9
          [] c = "SONG" -> 49569      \* U+C1A1
          [] c = "A"    -> 50500      \* U+C544
          [] c = "HA"   -> 54616 ]    \* U+D558

RECURSIVE DecomposeFully(_)
\* Full canonical decomposition of one code point, from the composition data.
DecomposeFully(c) ==
    IF \E t \in Compositions : t[3] = c
    THEN LET t == CHOOSE u \in Compositions : u[3] = c
         IN  DecomposeFully(t[1]) \o <<t[2]>>
    ELSE <<c>>

\* The decomposition table and the primary-composite table.
DecompositionOf == [c \in {t[3] : t \in Compositions} |-> DecomposeFully(c)]
CompositeOf ==
    [p \in {<<t[1], t[2]>> : t \in Compositions} |->
        (CHOOSE t \in Compositions : t[1] = p[1] /\ t[2] = p[2])[3]]

Decompose(c) == IF c \in DOMAIN DecompositionOf THEN DecompositionOf[c] ELSE <<c>>

RECURSIVE NFD(_)
\* unicodedata.normalize('NFD', s)
NFD(s) == IF s = <<>> THEN <<>> ELSE Decompose(Head(s)) \o NFD(Tail(s))

RECURSIVE ComposeFrom(_, _, _)
\* Canonical composition of s from position i on: each code point combines
\* with the last starter of the output when the pair has a primary composite.
ComposeFrom(out, s, i) ==
    IF i > Len(s) THEN out
    ELSE IF out # <<>> /\ <<out[Len(out)], s[i]>> \in DOMAIN CompositeOf
         THEN ComposeFrom([out EXCEPT ![Len(out)] = CompositeOf[<<@, s[i]>>]], s, i + 1)
         ELSE ComposeFrom(Append(out, s[i]), s, i + 1)

\* unicodedata.normalize('NFC', s)
NFC(s) == ComposeFrom(<<>>, NFD(s), 1)

\* python's `sub in text` on strings
Contains(sub, text) ==
    \E i \in 0..(Len(text) - Len(sub)) : SubSeq(text, i + 1, i + Len(sub)) = sub

\* --------------------------------------------------------- configuration
SCHOOL_INFO ==
    << [name |-> <<"SONG", "DO", "GO">>,  ec_target |-> 1],
       [name |-> <<"HA", "NEUL", "GO">>,  ec_target |-> 2],
       [name |-> <<"A", "RA", "GO">>,     ec_target |-> 4],
       [name |-> <<"DONG", "SAN", "GO">>, ec_target |-> 8] >>

\* list(SCHOOL_INFO.keys())
SchoolKeys == [i \in 1..Len(SCHOOL_INFO) |-> SCHOOL_INFO[i].name]
Schools == {SCHOOL_INFO[i].name : i \in 1..Len(SCHOOL_INFO)}

\* SCHOOL_INFO[s]['ec_target']
SchoolEc(s) == SCHOOL_INFO[CHOOSE i \in 1..Len(SCHOOL_INFO) : SCHOOL_INFO[i].name = s].ec_target

\* The sidebar's first option.
ALL == <<"JEON", "CHE">>

\* f"{school}_<environment data>.csv"
target_filename(school) == school \o <<"_", "ENVDATA", ".csv">>
growth_filename == <<"4", "GAE", "GYO", "_", "GROWTHDATA", ".xlsx">>

\* ------------------------------------------------- dicts (insertion order)
\* A python dict is a sequence of [key, val] entries in insertion order.
DictKeys(d) == [i \in 1..Len(d) |-> d[i].key]
DictHas(d, k) == \E i \in 1..Len(d) : d[i].key = k
DictGet(d, k) == d[CHOOSE i \in 1..Len(d) : d[i].key = k].val
DictSet(d, k, v) ==
    IF DictHas(d, k)
    THEN [i \in 1..Len(d) |-> IF d[i].key = k THEN [key |-> k, val |-> v] ELSE d[i]]
    ELSE Append(d, [key |-> k, val |-> v])

RECURSIVE Concat(_)
\* pd.concat(d.values())
Concat(d) == IF d = <<>> THEN <<>> ELSE Head(d).val \o Concat(Tail(d))

\* ------------------------------------------------------------------ files
\* A CSV on disk: its name, how its bytes are encoded, whether its text has
\* non-ASCII (Korean) characters, and its data rows.
Csv(name, enc, text, rows) ==
    [name |-> name, enc |-> enc, text |-> text, rows |-> rows, sheets |-> <<>>]
\* The workbook on disk: its name and its sheets [name, rows] in sheet order.
Workbook(name, sheets) ==
    [name |-> name, enc |-> "binary", text |-> "ascii", rows |-> <<>>, sheets |-> sheets]

\* pd.read_csv(found_file): decodes the bytes as UTF-8 and nothing else.
\* CP949 bytes of Korean text are not valid UTF-8; ASCII text has the same
\* bytes in both encodings.
read_csv(f) ==
    [ok |-> ~(f.enc = "cp949" /\ f.text = "korean"), rows |-> f.rows]

\* df['school'] = school
tag_env(rows, school) ==
    [i \in 1..Len(rows) |-> [temperature |-> rows[i].temperature, school |-> school]]

tag_growth_wrong_target(rows, school_match) ==
    [i \in 1..Len(rows) |->
        [weight |-> rows[i].weight, school |-> school_match,
         ec_target |-> SCHOOL_INFO[1].ec_target]]

\* df['school'] = school_match; df['ec_target'] = SCHOOL_INFO[school_match]['ec_target']
tag_growth(rows, school_match) ==
    [i \in 1..Len(rows) |->
        [weight |-> rows[i].weight, school |-> school_match,
         ec_target |-> SchoolEc(school_match)]]

normalize_compare_raw(target_name, file_name) == file_name = target_name

\* normalize_compare: NFC on both sides, then equality.
normalize_compare(target_name, file_name) == NFC(file_name) = NFC(target_name)

\* next((f for f in all_files if normalize_compare(t, f.name)), None):
\* the index of the first match in listing order, 0 for None.
find_file(target_name, all_files) ==
    LET hits == {i \in 1..Len(all_files) :
                    normalize_compare(target_name, all_files[i].name)}
    IN  IF hits = {} THEN 0 ELSE CHOOSE i \in hits : \A j \in hits : i <= j

\* next((s for s in SCHOOL_INFO.keys() if s in norm_sheet), None); <<>> is None.
school_match_of(norm_sheet) ==
    LET hits == {i \in 1..Len(SchoolKeys) : Contains(SchoolKeys[i], norm_sheet)}
    IN  IF hits = {} THEN <<>>
        ELSE SchoolKeys[CHOOSE i \in hits : \A j \in hits : i <= j]

env_missing_as_empty(acc, school) ==
    [acc EXCEPT !.env_dfs = DictSet(@, school, <<>>)]

\* The else branch of the environment loop: st.warning naming the school.
env_missing(acc, school) ==
    [acc EXCEPT !.warnings = @ \cup {school}]

RECURSIVE load_env(_, _, _)
\* The environment loop from school number i on.  acc carries env_dfs, the
\* warnings shown, every search made (found) and the exception raised, if any.
load_env(i, all_files, acc) ==
    IF i > Len(SchoolKeys) \/ acc.raised # "none" THEN acc
    ELSE LET school == SchoolKeys[i]
             found_file == find_file(target_filename(school), all_files)
             acc1 == [acc EXCEPT !.found =
                         Append(@, [target |-> target_filename(school),
                                    index |-> found_file])]
         IN  IF found_file # 0
             THEN LET csv == read_csv(all_files[found_file])
                  IN  IF csv.ok
                      THEN load_env(i + 1, all_files,
                               [acc1 EXCEPT !.env_dfs =
                                   DictSet(@, school, tag_env(csv.rows, school))])
                      ELSE [acc1 EXCEPT !.raised = "UnicodeDecodeError"]
             ELSE load_env(i + 1, all_files, env_missing(acc1, school))

RECURSIVE load_sheets(_, _)
\* The loop over xlsx.sheet_names.
load_sheets(sheets, growth_df_dict) ==
    IF sheets = <<>> THEN growth_df_dict
    ELSE LET sheet == Head(sheets)
             norm_sheet == NFC(sheet.name)
             school_match == school_match_of(norm_sheet)
         IN  load_sheets(Tail(sheets),
                 IF school_match # <<>>
                 THEN DictSet(growth_df_dict, school_match,
                              tag_growth(sheet.rows, school_match))
                 ELSE growth_df_dict)

\* The workbook part of load_all_data.
load_growth(all_files, acc) ==
    LET found_growth_file == find_file(growth_filename, all_files)
        acc1 == [acc EXCEPT !.found =
                    Append(@, [target |-> growth_filename,
                               index |-> found_growth_file])]
    IN  IF found_growth_file # 0
        THEN [acc1 EXCEPT !.growth_df_dict =
                 load_sheets(all_files[found_growth_file].sheets, <<>>)]
        ELSE [acc1 EXCEPT !.errors = @ \cup {"growth file not found"}]

EmptyLoad ==
    [env_dfs |-> <<>>, growth_df_dict |-> <<>>, warnings |-> {}, errors |-> {},
     found |-> <<>>, raised |-> "none"]

\* The body of load_all_data.  (None, None) is returned as two empty dicts:
\* the page only tests the truth value of what it gets.
load_all_data(exists, all_files) ==
    IF ~exists
    THEN [EmptyLoad EXCEPT !.errors = {"data directory does not exist"}]
    ELSE LET acc == load_env(1, all_files, EmptyLoad)
         IN  IF acc.raised # "none" THEN acc ELSE load_growth(all_files, acc)

\* What st.cache_data keeps: the return value and the elements to replay.
CacheEntry(r) ==
    [env_dfs |-> r.env_dfs, growth_df_dict |-> r.growth_df_dict,
     warnings |-> r.warnings, errors |-> r.errors]

uncached_load(slot, exists, all_files) ==
    LET r == load_all_data(exists, all_files)
    IN  [r |-> r, hit |-> FALSE,
         slot |-> IF r.raised = "none" THEN <<CacheEntry(r)>> ELSE slot]

\* @st.cache_data on a function without arguments: one slot.  A hit returns
\* the stored value and replays the stored messages; a miss runs the body and
\* stores the outcome unless the body raised.
cached_load(slot, exists, all_files) ==
    IF slot # <<>>
    THEN [r |-> [env_dfs |-> slot[1].env_dfs,
                 growth_df_dict |-> slot[1].growth_df_dict,
                 warnings |-> slot[1].warnings, errors |-> slot[1].errors,
                 found |-> <<>>, raised |-> "none"],
          hit |-> TRUE, slot |-> slot]
    ELSE LET r == load_all_data(exists, all_files)
         IN  [r |-> r, hit |-> FALSE,
              slot |-> IF r.raised = "none" THEN <<CacheEntry(r)>> ELSE slot]

main_guard_env_only(env, growth) == env # <<>>

\* if env_data and growth_data:
main_guard(env, growth) == env # <<>> /\ growth # <<>>

\* ------------------------------------------------------------ aggregation
RECURSIVE SumOf(_, _)
\* The sum of column col over rows.
SumOf(rows, col) ==
    IF rows = <<>> THEN 0 ELSE Head(rows)[col] + SumOf(Tail(rows), col)

\* The rows of a table whose school column is k.
RowsOf(rows, k) == SelectSeq(rows, LAMBDA r : r.school = k)

\* String order on school names: their first code points differ.
KeyLess(a, b) == CodePoint[a[1]] < CodePoint[b[1]]

RECURSIVE SortKeys(_)
\* The keys of a set in ascending string order.
SortKeys(S) ==
    IF S = {} THEN <<>>
    ELSE LET m == CHOOSE k \in S : \A o \in S \ {k} : KeyLess(k, o)
         IN  <<m>> \o SortKeys(S \ {m})

\* all_growth.groupby('school')[col].mean().reset_index(): one row per key,
\* keys sorted (groupby's default sort=True); a mean is kept as sum / count.
groupby_mean(rows, col) ==
    LET keys == SortKeys({rows[i].school : i \in 1..Len(rows)})
    IN  [i \in 1..Len(keys) |->
            [school |-> keys[i],
             sum    |-> SumOf(RowsOf(rows, keys[i]), col),
             count  |-> Len(RowsOf(rows, keys[i]))]]

\* a.mean > b.mean, on the exact quotients
MeanGreater(a, b) == a.sum * b.count > b.sum * a.count

\* Series.idxmax(): the first position holding the maximum; 0 on no rows.
idxmax(means) ==
    LET tops == {i \in 1..Len(means) :
                    \A j \in 1..Len(means) : ~MeanGreater(means[j], means[i])}
    IN  IF tops = {} THEN 0 ELSE CHOOSE i \in tops : \A j \in tops : i <= j

\* avg_weight.loc[avg_weight[col].idxmax(), 'school']; <<>> when there is none.
best_of(means) == IF idxmax(means) = 0 THEN <<>> ELSE means[idxmax(means)].school

\* groupby('school').agg(...).reindex(list(SCHOOL_INFO.keys())): one row per
\* configured school in configured order; a school without rows gets NaN.
agg_reindexed(rows) ==
    [i \in 1..Len(SchoolKeys) |->
        LET k == SchoolKeys[i]
        IN  [school |-> k,
             nan    |-> RowsOf(rows, k) = <<>>,
             sum    |-> SumOf(RowsOf(rows, k), "weight"),
             count  |-> Len(RowsOf(rows, k))]]

\* The env_summary loop: one row per entry of env_data, in dict order.
env_summary_of(env) ==
    [i \in 1..Len(env) |->
        [school   |-> env[i].key,
         sum      |-> SumOf(env[i].val, "temperature"),
         count    |-> Len(env[i].val),
         ec_target |-> SchoolEc(env[i].key)]]

RECURSIVE total_plants_of(_, _)
\* The info_table loop: the sum over SCHOOL_INFO of len(growth_data[s]), 0
\* for a school without a table.
total_plants_of(i, growth) ==
    IF i > Len(SchoolKeys) THEN 0
    ELSE (IF DictHas(growth, SchoolKeys[i])
          THEN Len(DictGet(growth, SchoolKeys[i])) ELSE 0)
         + total_plants_of(i + 1, growth)

\* ------------------------------------------------------------------ state
VARIABLES
    data_dir_exists,  \* whether data/ exists
    data_dir,         \* list(data_dir.iterdir()): the files in listing order
    deletes,          \* files removed from data/ so far
    cache,            \* st.cache_data's slot for load_all_data: <<>> or <<entry>>
    pc,               \* where the script run is
    found,            \* the searches of the last run of load_all_data's body
    env_data,         \* this run's env_data
    growth_data,      \* this run's growth_data
    warnings,         \* schools named by the st.warning calls shown in this run
    errors,           \* st.error messages shown in this run
    exception,        \* the uncaught exception that ended this run, or "none"
    selected_school,  \* the sidebar's selection
    rendered,         \* the sections drawn in this run
    total_plants,
    summary_df,
    all_growth,
    avg_weight,
    best_school,
    agg_growth

vars == << data_dir_exists, data_dir, deletes, cache, pc, found, env_data,
           growth_data, warnings, errors, exception, selected_school, rendered,
           total_plants, summary_df, all_growth, avg_weight, best_school,
           agg_growth >>

disk == << data_dir_exists, data_dir, deletes >>
tabs == << total_plants, summary_df, all_growth, avg_weight, best_school, agg_growth >>

\* ----------------------------------------------------------------- inputs
EnvRowsA == << [temperature |-> 21] >>
EnvRowsB == << [temperature |-> 18], [temperature |-> 24] >>

\* What data/ may hold for one school's environment CSV.
EnvFiles(s) ==
    LET t == target_filename(s)
    IN  { <<>>,
          << Csv(t, "utf-8", "ascii", EnvRowsA) >>,
          << Csv(NFD(t), "utf-8", "korean", EnvRowsB) >>,
          << Csv(t, "cp949", "korean", EnvRowsA) >>,
          << Csv(t, "cp949", "ascii", EnvRowsB) >>,
          << Csv(NFD(t), "utf-8", "ascii", EnvRowsB),
             Csv(t, "utf-8", "ascii", EnvRowsA) >>,
          << Csv(<<"copy_">> \o t, "utf-8", "ascii", EnvRowsA) >> }

\* The same, without the variants that only differ in how a file is read.
EnvFilesFew(s) ==
    LET t == target_filename(s)
    IN  { <<>>,
          << Csv(t, "utf-8", "ascii", EnvRowsA) >>,
          << Csv(NFD(t), "utf-8", "korean", EnvRowsB) >>,
          << Csv(t, "cp949", "korean", EnvRowsA) >> }

Sheet(name, rows) == [name |-> name, rows |-> rows]
W(n) == [weight |-> n]

\* A workbook with one sheet per school, in configured order.
FullSheets ==
    << Sheet(SchoolKeys[1], <<W(1), W(2)>>), Sheet(NFD(SchoolKeys[2]), <<W(2)>>),
       Sheet(SchoolKeys[3], <<W(1)>>),       Sheet(SchoolKeys[4], <<W(1), W(1)>>) >>
\* A workbook whose sheets carry prefixes and one name no school matches.
OddSheets ==
    << Sheet(<<"Sheet1">>, <<W(2)>>),
       Sheet(SchoolKeys[4] \o <<"_">> \o SchoolKeys[2], <<W(2), W(2)>>),
       Sheet(<<"EC1_">> \o NFD(SchoolKeys[1]), <<W(1)>>) >>

WorkbookFiles ==
    { <<>>,
      << Workbook(growth_filename, FullSheets) >>,
      << Workbook(NFD(growth_filename), OddSheets) >>,
      << Workbook(growth_filename, <<Sheet(<<"Sheet1">>, <<W(1)>>)>>) >> }

Reverse(s) == [i \in 1..Len(s) |-> s[Len(s) + 1 - i]]

\* Directories in which the environment files vary, in either listing order.
EnvDirectories ==
    LET forward == { g1 \o g2 \o g3 \o g4 \o w :
                        g1 \in EnvFiles(SchoolKeys[1]), g2 \in EnvFilesFew(SchoolKeys[2]),
                        g3 \in EnvFilesFew(SchoolKeys[3]), g4 \in EnvFiles(SchoolKeys[4]),
                        w \in WorkbookFiles }
    IN  forward \cup {Reverse(d) : d \in forward}

\* Sheet names of generated workbooks.
SheetNames ==
    { SchoolKeys[1], NFD(SchoolKeys[4]), SchoolKeys[1] \o <<"_", "2">>,
      SchoolKeys[4] \o <<"_">> \o SchoolKeys[2], <<"Sheet1">> }

\* Sheet contents: 1..MaxRows rows, weights ascending (the order of a sheet's
\* rows does not reach any aggregate).
SheetRows ==
    UNION { { r \in [1..n -> {W(x) : x \in 1..MaxWeight}] :
                \A i \in 1..(n - 1) : r[i].weight <= r[i + 1].weight }
            : n \in 1..MaxRows }

\* Workbooks of 1..MaxSheets sheets; a workbook's sheet names are distinct.
SheetSeqs ==
    UNION { { sh \in [1..n -> {Sheet(nm, r) : nm \in SheetNames, r \in SheetRows}] :
                \A i, j \in 1..n : i # j => sh[i].name # sh[j].name }
            : n \in 1..MaxSheets }

\* Directories in which the workbook varies.
GrowthDirectories ==
    { << Csv(target_filename(SchoolKeys[1]), "utf-8", "ascii", EnvRowsA),
         Csv(target_filename(SchoolKeys[4]), "utf-8", "ascii", EnvRowsB),
         Workbook(growth_filename, sh) >> : sh \in SheetSeqs }

\* Directories whose files may be removed while the process runs.
FSDirectories ==
    { g1 \o g4 \o w :
        g1 \in { <<>>, << Csv(target_filename(SchoolKeys[1]), "utf-8", "ascii", EnvRowsA) >> },
        g4 \in { <<>>, << Csv(NFD(target_filename(SchoolKeys[4])), "utf-8", "ascii", EnvRowsB) >>,
                 << Csv(target_filename(SchoolKeys[4]), "cp949", "korean", EnvRowsB) >> },
        w \in WorkbookFiles }

\* ------------------------------------------------------------------- Init
\* A process that has not run the script yet.
Fresh ==
    /\ deletes = 0
    /\ cache = <<>>
    /\ pc = "idle"
    /\ found = <<>>
    /\ env_data = <<>>
    /\ growth_data = <<>>
    /\ warnings = {}
    /\ errors = {}
    /\ exception = "none"
    /\ selected_school = ALL
    /\ rendered = {}
    /\ total_plants = 0
    /\ summary_df = <<>>
    /\ all_growth = <<>>
    /\ avg_weight = <<>>
    /\ best_school = <<>>
    /\ agg_growth = <<>>

Init ==
    /\ \/ data_dir_exists = FALSE /\ data_dir = <<>>
       \/ data_dir_exists = TRUE /\ data_dir \in EnvDirectories
    /\ Fresh

InitGrowth ==
    /\ data_dir_exists = TRUE
    /\ data_dir \in GrowthDirectories
    /\ Fresh

InitFS ==
    /\ data_dir_exists = TRUE
    /\ data_dir \in FSDirectories
    /\ Fresh

\* ---------------------------------------------------------------- actions
\* with st.spinner(...): env_data, growth_data = load_all_data()
Load ==
    /\ pc = "idle"
    /\ \E c \in {cached_load(cache, data_dir_exists, data_dir)} :
           /\ cache' = c.slot
           /\ found' = IF c.hit THEN found ELSE c.r.found
           /\ warnings' = c.r.warnings
           /\ errors' = c.r.errors
           /\ IF c.r.raised # "none"
              THEN /\ pc' = "crashed"
                   /\ exception' = c.r.raised
                   /\ UNCHANGED << env_data, growth_data >>
              ELSE /\ pc' = "loaded"
                   /\ env_data' = c.r.env_dfs
                   /\ growth_data' = c.r.growth_df_dict
                   /\ UNCHANGED exception
    /\ UNCHANGED << disk, selected_school, rendered, tabs >>

\* The main branch is taken: the sidebar's selectbox yields the selection.
Sidebar ==
    /\ pc = "loaded"
    /\ main_guard(env_data, growth_data)
    /\ \E sel \in {ALL} \cup Schools : selected_school' = sel
    /\ pc' = "tab1"
    /\ UNCHANGED << disk, cache, found, env_data, growth_data, warnings, errors,
                    exception, rendered, tabs >>

\* The else branch: the final st.error.
LoadFailed ==
    /\ pc = "loaded"
    /\ ~main_guard(env_data, growth_data)
    /\ errors' = errors \cup {"cannot load the data files"}
    /\ pc' = "done"
    /\ UNCHANGED << disk, cache, found, env_data, growth_data, warnings,
                    exception, selected_school, rendered, tabs >>

\* with tab1: the info table and the metrics.  pd.concat raises ValueError on
\* no tables.
Tab1 ==
    /\ pc = "tab1"
    /\ total_plants' = total_plants_of(1, growth_data)
    /\ IF env_data = <<>>
       THEN /\ pc' = "crashed"
            /\ exception' = "ValueError"
            /\ UNCHANGED rendered
       ELSE /\ pc' = "tab2"
            /\ rendered' = rendered \cup {"overview"}
            /\ UNCHANGED exception
    /\ UNCHANGED << disk, cache, found, env_data, growth_data, warnings, errors,
                    selected_school, summary_df, all_growth, avg_weight,
                    best_school, agg_growth >>

\* with tab2: the per-school comparison, then the selected school's time
\* series (env_data[selected_school] raises KeyError on a missing key), then
\* the download expander.
Tab2 ==
    /\ pc = "tab2"
    /\ summary_df' = env_summary_of(env_data)
    /\ IF selected_school # ALL /\ ~DictHas(env_data, selected_school)
       THEN /\ pc' = "crashed"
            /\ exception' = "KeyError"
            /\ rendered' = rendered \cup {"env_compare"}
       ELSE /\ pc' = "tab3"
            /\ rendered' = rendered \cup {"env_compare", "env_download"}
                             \cup (IF selected_school # ALL
                                   THEN {"env_timeseries"} ELSE {})
            /\ UNCHANGED exception
    /\ UNCHANGED << disk, cache, found, env_data, growth_data, warnings, errors,
                    selected_school, total_plants, all_growth, avg_weight,
                    best_school, agg_growth >>

\* with tab3: the combined growth table, the best school and the aggregate.
Tab3 ==
    /\ pc = "tab3"
    /\ IF growth_data = <<>>
       THEN /\ pc' = "crashed"
            /\ exception' = "ValueError"
            /\ UNCHANGED << rendered, all_growth, avg_weight, best_school, agg_growth >>
       ELSE /\ pc' = "done"
            /\ all_growth' = Concat(growth_data)
            /\ avg_weight' = groupby_mean(Concat(growth_data), "weight")
            /\ best_school' = best_of(groupby_mean(Concat(growth_data), "weight"))
            /\ agg_growth' = agg_reindexed(Concat(growth_data))
            /\ rendered' = rendered \cup {"growth"}
            /\ UNCHANGED exception
    /\ UNCHANGED << disk, cache, found, env_data, growth_data, warnings, errors,
                    selected_school, total_plants, summary_df >>

\* What a script run starts from: nothing of the previous run is kept.
NewRun ==
    /\ pc' = "idle"
    /\ env_data' = <<>>
    /\ growth_data' = <<>>
    /\ warnings' = {}
    /\ errors' = {}
    /\ exception' = "none"
    /\ selected_school' = ALL
    /\ rendered' = {}
    /\ total_plants' = 0
    /\ summary_df' = <<>>
    /\ all_growth' = <<>>
    /\ avg_weight' = <<>>
    /\ best_school' = <<>>
    /\ agg_growth' = <<>>

\* Streamlit re-executes the script in the same process.
Rerun ==
    /\ pc \in {"done", "crashed"}
    /\ NewRun
    /\ UNCHANGED << disk, cache, found >>

\* The process is restarted: the cache is gone.
Restart ==
    /\ pc \in {"done", "crashed"}
    /\ NewRun
    /\ cache' = <<>>
    /\ found' = <<>>
    /\ UNCHANGED disk

\* A file is removed from data/ between two script runs.
DeleteFile ==
    /\ pc \in {"done", "crashed"}
    /\ deletes < MaxDeletes
    /\ \E i \in 1..Len(data_dir) :
          data_dir' = SubSeq(data_dir, 1, i - 1) \o SubSeq(data_dir, i + 1, Len(data_dir))
    /\ deletes' = deletes + 1
    /\ UNCHANGED << data_dir_exists, cache, pc, found, env_data, growth_data,
                    warnings, errors, exception, selected_school, rendered, tabs >>

Next == Load \/ Sidebar \/ LoadFailed \/ Tab1 \/ Tab2 \/ Tab3 \/ Rerun \/ Restart

NextFS == Next \/ DeleteFile

Spec == Init /\ [][Next]_vars
SpecGrowth == InitGrowth /\ [][Next]_vars
SpecFS == InitFS /\ [][NextFS]_vars

\* ----------------------------------------------------------------- claims
\* Two names are canonically equivalent when their full decompositions agree.
CanonEq(a, b) == NFD(a) = NFD(b)

\* The files of data/ whose name is canonically equivalent to t.
Candidates(t) == {i \in 1..Len(data_dir) : CanonEq(data_dir[i].name, t)}

\* A file whose bytes are valid UTF-8.
Utf8Decodable(f) == f.enc = "utf-8" \/ f.text = "ascii"

\* s's environment CSV is absent / present with every candidate valid UTF-8.
EnvAbsent(s) == Candidates(target_filename(s)) = {}
EnvReadable(s) ==
    /\ Candidates(target_filename(s)) # {}
    /\ \A i \in Candidates(target_filename(s)) : Utf8Decodable(data_dir[i])

WorkbookPresent == Candidates(growth_filename) # {}

\* The script has called load_all_data in this run and the call returned.
Returned == pc # "idle" /\ exception # "UnicodeDecodeError"

KeySet(d) == {d[i].key : i \in 1..Len(d)}
SchoolsOf(t) == [i \in 1..Len(t) |-> t[i].school]
Restrict(order, S) == SelectSeq(order, LAMBDA k : k \in S)

\* s's CSV is absent while the other three CSVs (valid UTF-8) and the
\* workbook are present.
C1_Case(s) ==
    /\ data_dir_exists
    /\ EnvAbsent(s)
    /\ \A o \in Schools \ {s} : EnvReadable(o)
    /\ WorkbookPresent

\* C1: for every school s, when s's environment CSV is absent while the other
\* three schools' CSVs and the workbook are present, load_all_data returns
\* (no uncaught error), a warning naming s is shown, env_data has exactly the
\* three other schools as keys, and the environment summary, once built, has
\* exactly those three rows.
C1_MissingCsvIsWarning ==
    \A s \in Schools :
        (pc \in {"loaded", "tab3", "crashed"} /\ C1_Case(s)) =>
            /\ exception # "UnicodeDecodeError"
            /\ s \in warnings
            /\ Len(env_data) = 3
            /\ KeySet(env_data) = Schools \ {s}
            /\ ("env_compare" \in rendered) =>
                  /\ Len(summary_df) = 3
                  /\ {summary_df[i].school : i \in 1..3} = Schools \ {s}

\* C1's case: one CSV absent, the summary of the other three built.
C1_Witness ==
    \E s \in Schools :
        /\ C1_Case(s)
        /\ pc = "tab3"
        /\ s \in warnings
        /\ Len(summary_df) = 3

WorkbookAbsent == data_dir_exists /\ Candidates(growth_filename) = {}

\* C2: when no file of data/ matches the workbook name, growth_data is empty,
\* the main branch is never entered and no growth aggregate is computed,
\* whatever environment CSVs are present; the load that returns has shown the
\* workbook error, and the run that ends has shown the final error message.
\* (The only other way such a run ends is the UTF-8 decoding error of C4.)
C2_NoWorkbookNoGrowth ==
    WorkbookAbsent =>
        /\ growth_data = <<>>
        /\ pc \notin {"tab1", "tab2", "tab3"}
        /\ rendered = {}
        /\ all_growth = <<>> /\ avg_weight = <<>>
        /\ best_school = <<>> /\ agg_growth = <<>>
        /\ Returned => "growth file not found" \in errors
        /\ pc = "done" => "cannot load the data files" \in errors
        /\ pc = "crashed" => exception = "UnicodeDecodeError"

\* C2's case: environment tables loaded, no workbook, the run over.
C2_Witness ==
    /\ WorkbookAbsent
    /\ pc = "done"
    /\ Len(env_data) >= 2
    /\ "cannot load the data files" \in errors

\* C3: every search load_all_data made for a logical name t found the first
\* file, in listing order, whose name is canonically equivalent to t, and
\* found nothing (None) exactly when data/ holds no such file.
C3_NfcFirstMatch ==
    pc \in {"loaded", "crashed"} => \A k \in 1..Len(found) :
        LET c == Candidates(found[k].target)
        IN  IF c = {} THEN found[k].index = 0
            ELSE /\ found[k].index \in c
                 /\ \A j \in c : found[k].index <= j

\* C3's case: a search that took a file whose name differs from the logical
\* name code point by code point, ahead of a later candidate, and a search
\* that found nothing.
C3_Witness ==
    /\ \E k \in 1..Len(found) :
          /\ found[k].index # 0
          /\ data_dir[found[k].index].name # found[k].target
          /\ \E j \in Candidates(found[k].target) : j > found[k].index
    /\ \E k \in 1..Len(found) : found[k].index = 0

\* C4: a school whose CSV is CP949 text that is not valid UTF-8 ends up in
\* env_data with the file's values, and the decoding failure is not surfaced.
C4_EncodingFallback ==
    \A s \in Schools :
        LET c == Candidates(target_filename(s))
            first == CHOOSE i \in c : \A j \in c : i <= j
        IN  (pc # "idle" /\ c # {} /\ ~Utf8Decodable(data_dir[first])) =>
                /\ exception # "UnicodeDecodeError"
                /\ DictHas(env_data, s)
                /\ DictGet(env_data, s) = tag_env(data_dir[first].rows, s)

\* The sheets of the workbook on disk.
SheetsOnDisk ==
    LET c == Candidates(growth_filename)
    IN  IF c = {} THEN <<>> ELSE data_dir[CHOOSE i \in c : \A j \in c : i <= j].sheets

\* A sheet matches a school when its normalized name contains a school's name.
Matched(sheet) == \E s \in Schools : Contains(s, NFC(sheet.name))

RECURSIVE MatchedRowCount(_)
MatchedRowCount(sheets) ==
    IF sheets = <<>> THEN 0
    ELSE (IF Matched(Head(sheets)) THEN Len(Head(sheets).rows) ELSE 0)
         + MatchedRowCount(Tail(sheets))

\* C5: the combined growth table has as many rows as all the sheets that
\* matched some school have together.
C5_CombinedRowCount ==
    pc = "done" /\ "growth" \in rendered =>
        Len(all_growth) = MatchedRowCount(SheetsOnDisk)

\* A sheet of the workbook is s's: its normalized name contains s and no
\* other school's name.
SheetFor(s) ==
    \E i \in 1..Len(SheetsOnDisk) :
        /\ Contains(s, NFC(SheetsOnDisk[i].name))
        /\ \A o \in Schools \ {s} : ~Contains(o, NFC(SheetsOnDisk[i].name))

\* C6: in every Dataset load_all_data returns each key is one of the four schools and keys
\* one table, every environment row carries its key as school tag, every
\* growth row carries its key as school tag and that school's target
\* concentration; and a school whose CSV and sheet are both present and
\* well-formed has an environment table and a growth table.
C6_TaggedTables ==
    pc = "loaded" =>
        /\ KeySet(env_data) \subseteq Schools
        /\ KeySet(growth_data) \subseteq Schools
        /\ Cardinality(KeySet(env_data)) = Len(env_data)
        /\ Cardinality(KeySet(growth_data)) = Len(growth_data)
        /\ \A i \in 1..Len(env_data) : \A j \in 1..Len(env_data[i].val) :
              env_data[i].val[j].school = env_data[i].key
        /\ \A i \in 1..Len(growth_data) : \A j \in 1..Len(growth_data[i].val) :
              /\ growth_data[i].val[j].school = growth_data[i].key
              /\ growth_data[i].val[j].ec_target = SchoolEc(growth_data[i].key)
        /\ \A s \in Schools :
              (data_dir_exists /\ EnvReadable(s) /\ SheetFor(s)) =>
                  DictHas(env_data, s) /\ DictHas(growth_data, s)

\* C6's case: a school other than the first with both tables loaded, from a
\* CSV and a sheet whose names are stored decomposed.
C6_Witness ==
    /\ pc = "loaded"
    /\ \E s \in Schools \ {SchoolKeys[1]} :
          /\ EnvReadable(s) /\ SheetFor(s)
          /\ DictHas(env_data, s) /\ DictHas(growth_data, s)
          /\ DictGet(growth_data, s) # <<>>
          /\ \E i \in 1..Len(SheetsOnDisk) : SheetsOnDisk[i].name = NFD(s)

\* C7: the slot of the memoized load, once filled, keeps its value until the
\* process restarts, and every call that returns, returns the slot's Dataset:
\* all calls of one process return what its first call returned.
C7_MemoizedLoad ==
    /\ [][ /\ cache # <<>> => (cache' = cache \/ cache' = <<>>)
           /\ (cache # <<>> /\ cache' = <<>>) =>
                 (pc \in {"done", "crashed"} /\ pc' = "idle" /\ found' = <<>>) ]_vars
    /\ [](Returned =>
            /\ cache # <<>>
            /\ env_data = cache[1].env_dfs
            /\ growth_data = cache[1].growth_df_dict)

\* C7's case: a later run got the slot's Dataset although the body, run
\* again, would return another one.
C7_Witness ==
    /\ pc = "loaded"
    /\ deletes > 0
    /\ cache # <<>>
    /\ env_data = cache[1].env_dfs
    /\ CacheEntry(load_all_data(data_dir_exists, data_dir)).env_dfs # cache[1].env_dfs

\* The mean of s's growth table is the maximum of the per-school means.
IsTop(s) ==
    /\ DictHas(growth_data, s)
    /\ \A o \in KeySet(growth_data) :
          SumOf(DictGet(growth_data, o), "weight") * Len(DictGet(growth_data, s))
            <= SumOf(DictGet(growth_data, s), "weight") * Len(DictGet(growth_data, o))

\* C8: the best school has the maximum mean fresh weight and, among the
\* schools that share it, comes first in SCHOOL_INFO's order.
C8_BestSchoolTieBreak ==
    pc = "done" /\ "growth" \in rendered =>
        /\ IsTop(best_school)
        /\ \A i, j \in 1..Len(SchoolKeys) :
              (IsTop(SchoolKeys[i]) /\ SchoolKeys[j] = best_school) => j <= i

\* C9: the environment summary, avg_weight and the rows of agg_growth that
\* hold data list their schools in SCHOOL_INFO's order restricted to the
\* schools present.
C9_ConfiguredOrder ==
    pc = "done" /\ "growth" \in rendered =>
        /\ SchoolsOf(summary_df) = Restrict(SchoolKeys, KeySet(env_data))
        /\ SchoolsOf(avg_weight) = Restrict(SchoolKeys, KeySet(growth_data))
        /\ SchoolsOf(SelectSeq(agg_growth, LAMBDA r : ~r.nan))
             = Restrict(SchoolKeys, KeySet(growth_data))

\* C10: a run that entered the main branch with some school's environment
\* table missing ends without an uncaught error, whatever the selection, with
\* the overview, the per-school environment comparison and the growth tab
\* rendered.
C10_ErrorsConfined ==
    (/\ pc \in {"done", "crashed"}
     /\ Returned
     /\ main_guard(env_data, growth_data)
     /\ \E s \in Schools : ~DictHas(env_data, s)) =>
        /\ pc = "done"
        /\ {"overview", "env_compare", "growth"} \subseteq rendered

=============================================================================
